---- MODULE Spec2Model ----
(***************************************************************************)
(* Model of scripts/daily_bluesky_post.py: the signal reader, the post     *)
(* normaliser/validator inside openai_generate_post, and main's sequence   *)
(* of calls to the generation API and the Bluesky publisher.               *)
(*                                                                         *)
(* A Python str is modelled as a sequence of one-character strings.        *)
(***************************************************************************)
EXTENDS Integers, Sequences, FiniteSets, TLC

VARIABLES pc, today, signalFile, flagged, summary, raw, prefixed, post_text,
          error, sessionCalled, posted

vars == <<pc, today, signalFile, flagged, summary, raw, prefixed, post_text,
          error, sessionCalled, posted>>

(***************************************************************************)
(* Characters and the str methods the program uses                         *)
(***************************************************************************)

\* The characters str.strip / str.split without arguments treat as whitespace
\* (the ASCII ones that occur in the modelled texts).
Whitespace == {" ", "\n", "\t"}

UpperLetters == <<"A","B","C","D","E","F","G","H","I","J","K","L","M",
                  "N","O","P","Q","R","S","T","U","V","W","X","Y","Z">>

LowerLetters == <<"a","b","c","d","e","f","g","h","i","j","k","l","m",
                  "n","o","p","q","r","s","t","u","v","w","x","y","z">>

\* Code points of the non-ASCII characters that occur in the modelled texts;
\* a non-ASCII character is written by its code point name.
CodePoint == [c \in {"U+1F600", "U+2603"} |->
                 IF c = "U+1F600" THEN 128512 ELSE 9731]

\* ord(ch) of line 157 restricted to whether it lies in 0x1F300..0x1FAFF.
IsEmoji(c) == c \in DOMAIN CodePoint /\ 127744 <= CodePoint[c] /\ CodePoint[c] <= 129791

LowerChar(c) ==
  IF \E i \in 1..26 : UpperLetters[i] = c
  THEN LowerLetters[CHOOSE i \in 1..26 : UpperLetters[i] = c]
  ELSE c

\* str.lower()
Lower(s) == [i \in 1..Len(s) |-> LowerChar(s[i])]

\* str.lstrip()
RECURSIVE LStrip(_)
LStrip(s) ==
  IF s # <<>> /\ Head(s) \in Whitespace THEN LStrip(Tail(s)) ELSE s

\* str.rstrip()
RECURSIVE RStrip(_)
RStrip(s) ==
  IF s # <<>> /\ s[Len(s)] \in Whitespace THEN RStrip(SubSeq(s, 1, Len(s) - 1)) ELSE s

\* str.strip()
Strip(s) == LStrip(RStrip(s))

\* str.startswith(p)
StartsWith(s, p) == Len(s) >= Len(p) /\ SubSeq(s, 1, Len(p)) = p

\* p in s
Contains(s, p) ==
  \E i \in 1..(Len(s) - Len(p) + 1) : SubSeq(s, i, i + Len(p) - 1) = p

\* s[:n]
Take(s, n) == SubSeq(s, 1, IF Len(s) < n THEN Len(s) ELSE n)

\* s[n:]
Drop(s, n) == SubSeq(s, n + 1, Len(s))

\* str.split(): the maximal runs of non-whitespace, in order.
Split(s) ==
  LET starts == {i \in 1..Len(s) :
                   s[i] \notin Whitespace /\ (i = 1 \/ s[i-1] \in Whitespace)}
      ends == {j \in 1..Len(s) :
                 s[j] \notin Whitespace /\ (j = Len(s) \/ s[j+1] \in Whitespace)}
      Nth(S, k) == CHOOSE i \in S : Cardinality({j \in S : j <= i}) = k
  IN  [k \in 1..Cardinality(starts) |-> SubSeq(s, Nth(starts, k), Nth(ends, k))]

(***************************************************************************)
(* String literals of the program                                          *)
(***************************************************************************)

Tank == <<"#","t","a","n","k">>

TankSp == Tank \o <<" ">>

Special == <<"S","P","E","C","I","A","L",":">>

TankSpecial == TankSp \o Special

TankSpecialSp == TankSpecial \o <<" ">>

Dots == <<".", ".", ".">>

Http == <<"h","t","t","p",":","/","/">>

Https == <<"h","t","t","p","s",":","/","/">>

Www == <<"w","w","w",".">>

\* The tuple of line 161.
FirstPersonPatterns ==
  { <<" ","i"," ">>, <<" ","m","e"," ">>, <<" ","m","y"," ">>,
    <<" ","i","'","m">>, <<" ","i","v","e"," ">>, <<" ","i","'","v","e"," ">> }

(***************************************************************************)
(* openai_generate_post, lines 126-165: the normaliser / validator         *)
(***************************************************************************)

\* Lines 129-133.
EnforcePrefix(text) ==
  IF StartsWith(text, TankSp) THEN text
  ELSE IF StartsWith(text, Tank) THEN TankSp \o LStrip(Drop(text, Len(Tank)))
  ELSE TankSp \o text

\* Lines 136-140.
EnforceSpecial(text, flag) ==
  IF flag /\ ~StartsWith(text, TankSpecial)
  THEN IF StartsWith(text, TankSp)
       THEN TankSpecialSp \o LStrip(Drop(text, Len(TankSp)))
       ELSE text
  ELSE text

\* Lines 126-140: the text as it stands before the length cap.
Repair(rawText, flag) == EnforceSpecial(EnforcePrefix(Strip(rawText)), flag)

\* EnforceLength cutting at the cap itself, leaving no room for the dots.
EnforceLengthNoRoom(text) ==
  IF Len(text) > 200 THEN RStrip(Take(text, 200)) \o Dots ELSE text

\* EnforceLength without the rstrip of line 144.
EnforceLengthNoRStrip(text) ==
  IF Len(text) > 200 THEN Take(text, 197) \o Dots ELSE text

\* Lines 143-144.
EnforceLength(text) ==
  IF Len(text) > 200 THEN RStrip(Take(text, 197)) \o Dots ELSE text

\* Lines 147-149.
HasUrl(text) ==
  LET lowered == Lower(text)
  IN  Contains(lowered, Http) \/ Contains(lowered, Https) \/ Contains(lowered, Www)

\* Lines 151-153.
HasExtraHashtag(text) ==
  LET words == Split(text)
      hashtags == {i \in 1..Len(words) : Head(words[i]) = "#"}
  IN  \E i \in hashtags : Lower(words[i]) # Tank

\* Lines 156-158.
HasEmoji(text) == \E i \in 1..Len(text) : IsEmoji(text[i])

\* Lines 160-163.
HasFirstPerson(text) ==
  LET padded == <<" ">> \o Lower(text) \o <<" ">>
  IN  \E bad \in FirstPersonPatterns : Contains(padded, bad)

\* Lines 146-163: the first failing check's error, or "none".
SafetyCheck(text) ==
  IF HasUrl(text) THEN "Post contains URL"
  ELSE IF HasExtraHashtag(text) THEN "Extra hashtag detected"
  ELSE IF HasEmoji(text) THEN "Emoji detected"
  ELSE IF HasFirstPerson(text) THEN "First-person voice detected"
  ELSE "none"

\* Lines 126-165 as a function of the extracted text and the mode.
Normalize(rawText, flag) ==
  LET text == EnforceLength(Repair(rawText, flag))
  IN  [text |-> text, error |-> SafetyCheck(text)]

(***************************************************************************)
(* load_high_profile_signal, lines 28-56                                   *)
(*                                                                         *)
(* A JSON value is [t |-> its type, v |-> its text as characters]; a key   *)
(* the object lacks has type "absent".  A signal file is                   *)
(* [kind, top, date_utc, flag, summary]: kind says whether the path        *)
(* exists, can be read and parses; top is the type of the top-level value. *)
(***************************************************************************)

JNone == [t |-> "null", v |-> <<>>]

JAbsent == [t |-> "absent", v |-> <<>>]

JStr(chars) == [t |-> "str", v |-> chars]

JBool(b) == [t |-> "bool", v |-> IF b THEN <<"t","r","u","e">> ELSE <<"f","a","l","s","e">>]

JNum(digits) == [t |-> "num", v |-> digits]

\* dict.get(key): None when the key is missing.
Get(val) == IF val.t = "absent" THEN JNone ELSE val

\* bool(x) of a JSON scalar.
Truthy(val) ==
  CASE val.t = "bool" -> val.v = <<"t","r","u","e">>
    [] val.t = "str"  -> val.v # <<>>
    [] val.t = "num"  -> val.v # <<"0">>
    [] OTHER          -> FALSE

\* Lines 36-56.  raised: an exception leaves the function (data.get on a
\* top-level value that is not a dict, outside the try of lines 39-42).
LoadHighProfileSignal(file, now) ==
  IF file.kind = "missing"
    THEN [raised |-> FALSE, flagged |-> FALSE, summary |-> JNone]
  ELSE IF file.kind \in {"unreadable", "malformed"}
    THEN [raised |-> FALSE, flagged |-> FALSE, summary |-> JNone]
  ELSE IF file.top # "object"
    THEN [raised |-> TRUE, flagged |-> FALSE, summary |-> JNone]
  ELSE IF Get(file.date_utc) # JStr(now)
    THEN [raised |-> FALSE, flagged |-> FALSE, summary |-> JNone]
  ELSE IF Truthy(Get(file.flag)) # TRUE
    THEN [raised |-> FALSE, flagged |-> FALSE, summary |-> JNone]
  ELSE [raised |-> FALSE, flagged |-> TRUE,
        summary |-> IF Get(file.summary).t = "str"
                    THEN JStr(Strip(Get(file.summary).v))
                    ELSE JNone]

(***************************************************************************)
(* The environment: clock, signal file, generation API responses           *)
(***************************************************************************)

Day04 == <<"2","0","2","6","-","1","1","-","0","4">>

Day05 == <<"2","0","2","6","-","1","1","-","0","5">>

Days == {Day04, Day05}

NoFile(kind) ==
  [kind |-> kind, top |-> "none", date_utc |-> JAbsent, flag |-> JAbsent,
   summary |-> JAbsent]

NonObject(top) ==
  [kind |-> "json", top |-> top, date_utc |-> JAbsent, flag |-> JAbsent,
   summary |-> JAbsent]

FlagValues == {JBool(TRUE), JBool(FALSE), JStr(<<"t","r","u","e">>), JNum(<<"1">>), JAbsent}

SignalFiles ==
  {NoFile(k) : k \in {"missing", "unreadable", "malformed"}}
  \cup {NonObject(t) : t \in {"list", "null"}}
  \cup {[kind |-> "json", top |-> "object", date_utc |-> d, flag |-> f,
         summary |-> JAbsent] : d \in {JStr(Day05), JAbsent}, f \in FlagValues}
  \cup {[kind |-> "json", top |-> "object", date_utc |-> JStr(Day05),
         flag |-> JBool(TRUE), summary |-> s] :
          s \in {JStr(<<" ","h","i"," ">>), JNum(<<"1">>)}}

\* Shortest and longest run of filler letters in a long completion, chosen
\* so that the repaired text straddles the 200-character cap in both modes.
MinFill == 176

MaxFill == 196

Fill(n) == [i \in 1..n |-> "x"]

Ok == <<"o","k">>

Heads ==
  { <<>>, <<" ">>, Tank, TankSp, TankSp \o <<" ">>, TankSpecial, TankSpecialSp,
    Tank \o Special \o <<" ">>, TankSp \o <<" ">> \o Special \o <<" ">>,
    Special \o <<" ">>, <<"#","T","A","N","K"," ">> }

Words ==
  { <<>>, Ok, <<"i">>, <<"I",",">>, <<"m","e">>, <<"m","e",".">>, <<"(","m","y">>,
    <<"m","y">>, <<"i","'","m">>, <<"I","v","e">>, <<"i","'","v","e">>,
    Ok \o <<"\n">> \o <<"m","e">> \o <<"\n">> \o Ok,
    <<"#","f","o","o">>, Ok \o <<" ">> \o Tank,
    Https \o <<"a">>, <<"W","W","W",".","a">>, Ok \o Http, <<"w","w","w">>,
    <<"U+1F600">>, <<"U+2603">> }

TailWords ==
  { <<>>, Ok, <<"#","f","o","o">>, Https \o <<"a">>, <<"w","w","w",".","a">>,
    <<"m","e">>, <<"U+1F600">> }

ShortCompletions == {h \o w : h \in Heads, w \in Words}

LongCompletions ==
  {Fill(n) \o <<" ">> \o w : n \in MinFill..MaxFill, w \in TailWords}

\* The texts the generation API may return in output[].content[].text.
Completions == (ShortCompletions \cup LongCompletions) \ {<<>>}

(***************************************************************************)
(* main, lines 199-216                                                     *)
(***************************************************************************)

Init ==
  /\ pc = "start"
  /\ today \in Days
  /\ signalFile \in SignalFiles
  /\ flagged = FALSE
  /\ summary = JNone
  /\ raw = <<>>
  /\ prefixed = <<>>
  /\ post_text = <<>>
  /\ error = "none"
  /\ sessionCalled = FALSE
  /\ posted = <<>>

\* Lines 200-203 (require_env, lines 17-21).
RequireEnv ==
  /\ pc = "start"
  /\ \E present \in BOOLEAN :
       IF present
       THEN pc' = "env" /\ error' = error
       ELSE pc' = "exit" /\ error' = "Missing required environment variable"
  /\ UNCHANGED <<today, signalFile, flagged, summary, raw, prefixed, post_text,
                 sessionCalled, posted>>

\* Line 205.
LoadSignal ==
  /\ pc = "env"
  /\ LET r == LoadHighProfileSignal(signalFile, today)
     IN  IF r.raised
         THEN /\ pc' = "exit"
              /\ error' = "AttributeError"
              /\ UNCHANGED <<flagged, summary>>
         ELSE /\ pc' = "signal"
              /\ flagged' = r.flagged
              /\ summary' = r.summary
              /\ error' = error
  /\ UNCHANGED <<today, signalFile, raw, prefixed, post_text, sessionCalled, posted>>

\* Line 211, the call failing before any text is extracted (lines 107-124).
GenerateNoText ==
  /\ pc = "signal"
  /\ pc' = "exit"
  /\ error' \in {"OpenAI HTTPError", "No text returned from OpenAI"}
  /\ UNCHANGED <<today, signalFile, flagged, summary, raw, prefixed, post_text,
                 sessionCalled, posted>>

\* Line 211, the API returning a text (lines 107-165).
GeneratePost ==
  /\ pc = "signal"
  /\ \E completion \in Completions :
       LET r == Normalize(completion, flagged)
       IN  /\ raw' = completion
           /\ prefixed' = Repair(completion, flagged)
           /\ IF r.error = "none"
              THEN pc' = "generated" /\ post_text' = r.text /\ error' = error
              ELSE pc' = "exit" /\ post_text' = post_text /\ error' = r.error
  /\ UNCHANGED <<today, signalFile, flagged, summary, sessionCalled, posted>>

\* Line 214 (bluesky_create_session, lines 168-175).
CreateSession ==
  /\ pc = "generated"
  /\ sessionCalled' = TRUE
  /\ \E ok \in BOOLEAN :
       IF ok
       THEN pc' = "session" /\ error' = error
       ELSE pc' = "exit" /\ error' = "createSession HTTPError"
  /\ UNCHANGED <<today, signalFile, flagged, summary, raw, prefixed, post_text, posted>>

\* CreatePost submitting the API's text instead of the validated post.
CreatePostRaw ==
  /\ pc = "session"
  /\ posted' = Append(posted, raw)
  /\ \E ok \in BOOLEAN :
       IF ok
       THEN pc' = "done" /\ error' = error
       ELSE pc' = "exit" /\ error' = "createRecord HTTPError"
  /\ UNCHANGED <<today, signalFile, flagged, summary, raw, prefixed, post_text,
                 sessionCalled>>

\* Line 215 (bluesky_create_post, lines 178-196): the record's text.
CreatePost ==
  /\ pc = "session"
  /\ posted' = Append(posted, post_text)
  /\ \E ok \in BOOLEAN :
       IF ok
       THEN pc' = "done" /\ error' = error
       ELSE pc' = "exit" /\ error' = "createRecord HTTPError"
  /\ UNCHANGED <<today, signalFile, flagged, summary, raw, prefixed, post_text,
                 sessionCalled>>

Next ==
  \/ RequireEnv
  \/ LoadSignal
  \/ GenerateNoText
  \/ GeneratePost
  \/ CreateSession
  \/ CreatePost

Spec == Init /\ [][Next]_vars

(***************************************************************************)
(* Properties                                                              *)
(***************************************************************************)

\* openai_generate_post has returned a post in this run.
GenerationReturned ==
  \/ pc \in {"generated", "session", "done"}
  \/ pc = "exit" /\ error \in {"createSession HTTPError", "createRecord HTTPError"}

\* openai_generate_post was called and raised.
GenerationRaised ==
  /\ pc = "exit"
  /\ error \in {"OpenAI HTTPError", "No text returned from OpenAI", "Post contains URL",
                "Extra hashtag detected", "Emoji detected", "First-person voice detected"}

\* C1: the publisher is called only after openai_generate_post has returned,
\* the text submitted is exactly the string it returned, and when generation
\* or a safety check raises neither the session call nor the post call is made.
C1_PublishOnlyGenerated ==
  /\ (sessionCalled \/ posted # <<>>) => GenerationReturned
  /\ posted # <<>> => sessionCalled /\ posted = <<post_text>>
  /\ GenerationRaised => ~sessionCalled /\ posted = <<>>
  /\ pc = "done" => posted = <<post_text>>

\* A run that published a post which differs from the raw completion.
C1_Witness == pc = "done" /\ posted = <<post_text>> /\ raw # post_text

\* The signal file exists and parses as a JSON object.
IsObjectFile == signalFile.kind = "json" /\ signalFile.top = "object"

\* C2: for a file that parses as an object, flagged is true iff date_utc is
\* today's date string and flag is exactly the boolean true; otherwise the
\* reader returns (False, None).
C2_FlaggedIffExactlyTrue ==
  (pc = "signal" /\ IsObjectFile) =>
     LET exact == signalFile.date_utc = JStr(today) /\ signalFile.flag = JBool(TRUE)
     IN  /\ flagged <=> exact
         /\ ~exact => summary = JNone

\* C3: load_high_profile_signal never raises; a file that is missing,
\* unreadable, malformed or not an object yields (False, None).
C3_NeverRaises ==
  /\ error # "AttributeError"
  /\ (pc = "signal" /\ ~IsObjectFile) => (flagged = FALSE /\ summary = JNone)

\* C4: a raw completion containing http://, https:// or www. in any letter
\* case, at any position, is rejected: no post is returned for it.
C4_UrlAlwaysRejected == pc = "generated" => ~HasUrl(raw)

\* A whitespace-delimited token of the raw completion, other than its first,
\* begins with '#'.
HasSecondHashtag(rawText) ==
  LET words == Split(rawText)
  IN  \E i \in 2..Len(words) : Head(words[i]) = "#"

\* C5: a raw completion with a second hashtag token is rejected, whether or
\* not the token lies beyond the length cap.
C5_SecondHashtagRejected == pc = "generated" => ~HasSecondHashtag(raw)

\* C6 as stated: when the prefixed text exceeds the cap, the character before
\* the dots ends a complete word: the character after it in the prefixed text
\* is whitespace.
C6_NeverMidWord ==
  (pc = "generated" /\ Len(prefixed) > 200) =>
     LET cut == Len(post_text) - Len(Dots)
     IN  /\ post_text = Take(prefixed, cut) \o Dots
         /\ prefixed[cut] \notin Whitespace
         /\ prefixed[cut + 1] \in Whitespace

\* C6 as amended: when the prefixed text exceeds the cap, the post is a prefix
\* of it followed by "...", and the character before the dots is the last
\* non-whitespace character among the first 197 of the prefixed text.
C6_CutAt197 ==
  (pc = "generated" /\ Len(prefixed) > 200) =>
     LET cut == Len(post_text) - Len(Dots)
     IN  /\ cut >= 1 /\ cut <= 197
         /\ post_text = Take(prefixed, cut) \o Dots
         /\ prefixed[cut] \notin Whitespace
         /\ \A i \in (cut + 1)..197 : prefixed[i] \in Whitespace

\* A truncated post whose cut falls inside a word.
C6_Witness ==
  /\ pc = "generated"
  /\ Len(prefixed) > 200
  /\ prefixed[197] \notin Whitespace
  /\ prefixed[198] \notin Whitespace

\* C7: a returned post begins with "#tank" and exactly one space, and in
\* Special mode with exactly "#tank SPECIAL: ".
C7_PrefixExact ==
  pc = "generated" =>
     /\ StartsWith(post_text, TankSp)
     /\ Len(post_text) > Len(TankSp) => post_text[Len(TankSp) + 1] \notin Whitespace
     /\ flagged => StartsWith(post_text, TankSpecialSp)

\* C8: normalising a returned post again in the same mode returns it
\* unchanged.  Stated for the runs whose Special mode comes from a signal
\* whose flag is the boolean true, so that a violation does not rest on the
\* reader's handling of other flag values.
C8_Idempotent ==
  (pc = "generated" /\ (flagged => signalFile.flag = JBool(TRUE))) =>
     Normalize(post_text, flagged) = [text |-> post_text, error |-> "none"]

FirstPersonMarkers ==
  { <<"i">>, <<"m","e">>, <<"m","y">>, <<"i","'","m">>, <<"i","'","v","e">> }

IsLetter(c) == \E i \in 1..26 : LowerLetters[i] = c \/ UpperLetters[i] = c

\* A first-person marker occurs in text with a non-letter (or the end of the
\* text) on either side, in any letter case.
HasFirstPersonWord(text) ==
  LET lowered == Lower(text)
  IN  \E m \in FirstPersonMarkers : \E i \in 1..(Len(text) - Len(m) + 1) :
        /\ SubSeq(lowered, i, i + Len(m) - 1) = m
        /\ (i = 1 \/ ~IsLetter(text[i - 1]))
        /\ (i + Len(m) > Len(text) \/ ~IsLetter(text[i + Len(m)]))

\* C9: no returned post contains a first-person marker as a whole word.
C9_NoFirstPerson == pc = "generated" => ~HasFirstPersonWord(post_text)

\* C10: a returned post has at most 200 characters, and a text of at most
\* 200 characters after prefix repair is returned as it is.
C10_LengthBound ==
  pc = "generated" =>
     /\ Len(post_text) <= 200
     /\ Len(prefixed) <= 200 => post_text = prefixed

\* A returned post that was truncated to exactly the cap.
C10_Witness == pc = "generated" /\ Len(prefixed) > 200 /\ Len(post_text) = 200

====
